---- MODULE Spec2Model ----
(***************************************************************************)
(* A model of qdhmc_wfplot.py: the QD-HMC transition kernel (QDHMCKernel), *)
(* its circuit library (generate_circuits), the kernel result record       *)
(* (RWResult), the chain driver (HMC.run_hmc) and the domain encoding the  *)
(* kernel calls (domain_bin_tf / domain_float_tf).                         *)
(*                                                                         *)
(* Library semantics the source relies on, as modelled here:               *)
(*  - cirq.Circuit.__iadd__ appends to the circuit object in place and     *)
(*    returns the same object; list.append stores a reference.             *)
(*  - tf.random.normal(seed=s): with an operation seed the stream is a     *)
(*    deterministic function of (s, per-kernel counter).  Eagerly, calls   *)
(*    with equal arguments share one kernel and one counter; traced in a   *)
(*    tf.function each call site is its own op with its own counter.       *)
(*    With seed=None every draw takes fresh entropy.                       *)
(*  - tfq.layers.Sample takes no seed: the measured bitstring is chosen by *)
(*    the simulator.                                                       *)
(*  - tfp.mcmc.sample_chain scans over                                     *)
(*    one_hot(0, depth=num_results, on=1+num_burnin, off=1): the i-th      *)
(*    result is traced after that many kernel steps.                       *)
(*  - tf.reduce_mean is sum/count in floating point (0/0 = NaN).           *)
(***************************************************************************)
EXTENDS Integers, Sequences, FiniteSets, TLC

(* ------------------------------ bounds -------------------------------- *)
MaxVars == 2
MaxPrecision == 2
MaxR == 2
MaxCalls == 2
MaxSamples == 2
MaxBurnin == 2
\* grid resolution of the reals: the integer k stands for the real k / Den
Den == 4

None == -1
SeedArgs == {None, 7}
TimeArgs == {2}
Modes == {"eager", "graph"}

VARIABLES
    \* QDHMCKernel
    phase,              \* "new" | "constructed" | "ready"
    precision, num_vars, r, t,
    heap,               \* circuit object id -> its operations
    all_circuits,       \* list of circuit object ids
    trotterized_circuit,
    params,             \* list of symbols
    mode,               \* how one_step is executed: eagerly or traced
    kernelCtr,          \* per random-op-kernel counters
    entropy,            \* unseeded draws made so far
    boot,               \* the bootstrap_results call: <<[init, out]>> or <<>>
    pool,               \* (state, kernel results) pairs one_step may be given
    calls,              \* the one_step calls made: arguments and outputs
    last,               \* locals of the latest one_step call, <<>> before
    raised,             \* an exception left one_step
    \* HMC.run_hmc
    pc, kernel_type, num_samples, num_burnin,
    elems, idx, todo, steps, chain_state, accepted_now, samples, is_accepted,
    sample_mean, rate,
    \* domain encoding
    cstage, cx, cbits, cdec

kvars == <<phase, precision, num_vars, r, t, heap, all_circuits,
           trotterized_circuit, params, mode, kernelCtr, entropy, boot,
           pool, calls, last, raised>>
hvars == <<pc, kernel_type, num_samples, num_burnin, elems, idx, todo,
           steps, chain_state, accepted_now, samples, is_accepted,
           sample_mean, rate>>
cvars == <<cstage, cx, cbits, cdec>>
vars == <<kvars, hvars, cvars>>

(* ----------------------------- helpers -------------------------------- *)
RECURSIVE Pow2(_)
Pow2(n) == IF n = 0 THEN 1 ELSE 2 * Pow2(n - 1)

RECURSIVE SumSq(_)
SumSq(s) == IF s = <<>> THEN 0 ELSE Head(s) * Head(s) + SumSq(Tail(s))

RECURSIVE Concat(_)
Concat(ss) == IF ss = <<>> THEN <<>> ELSE Head(ss) \o Concat(Tail(ss))

\* the target log-probability callable handed to the kernel: a standard
\* normal up to a constant, -|x|^2, in units of 1/Den^2
TargetLogProb(state) == 0 - SumSq(state)

(* --------------------------- domain encoding -------------------------- *)
\* p-bit two's complement of the integer level v, most significant bit first
TwosBits(v, p) ==
    LET u == (v + Pow2(p)) % Pow2(p)
    IN  [j \in 1..p |-> (u \div Pow2(p - j)) % 2]

RECURSIVE BitsVal(_)
BitsVal(bs) ==
    IF bs = <<>> THEN 0 ELSE 2 * BitsVal(SubSeq(bs, 1, Len(bs) - 1)) + bs[Len(bs)]

Saturate(v, p) ==
    IF v < 0 - Pow2(p - 1) THEN 0 - Pow2(p - 1)
    ELSE IF v > Pow2(p - 1) - 1 THEN Pow2(p - 1) - 1 ELSE v

\* an encoder that wraps around instead of saturating
EncodeOneWrap(x, p) == TwosBits(x \div Den, p)

\* encode one real (k / Den): the grid level at or below it, saturated
EncodeOne(x, p) == TwosBits(Saturate(x \div Den, p), p)

\* decode one p-bit string to a real (in units of 1/Den)
DecodeOne(bs, p) ==
    LET u == BitsVal(bs)
    IN  (IF u >= Pow2(p - 1) THEN u - Pow2(p) ELSE u) * Den

\* domain_bin_tf: state vector -> bit matrix of shape [num_vars, precision]
domain_bin_tf(state, p) == [i \in 1..Len(state) |-> EncodeOne(state[i], p)]

\* domain_float_tf: bit matrix -> state vector
domain_float_tf(bits, p) == [i \in 1..Len(bits) |-> DecodeOne(bits[i], p)]

(* ------------------------------ circuits ------------------------------ *)
NoSym == [name |-> "", idx |-> 0]
SymXs(k) == [name |-> "xs", idx |-> k]
SymEta == [name |-> "eta", idx |-> 0]
SymLam == [name |-> "lam", idx |-> 0]

\* an operation: gate, register (-1: all registers), qubit column (-1: the
\* whole register) and the symbol it is parametrized by
Op(g, i, j, s) == [gate |-> g, reg |-> i, col |-> j, sym |-> s]

\* lines 91-93: X(qubit(i,j)) ** xs[i*precision + j]
PrepOps(nv, p) ==
    [k \in 1..(nv * p) |->
        LET i == (k - 1) \div p
            j == (k - 1) % p
        IN  Op("X", i, j, SymXs(i * p + j))]

PerRegister(nv, g, j, s) == [k \in 1..nv |-> Op(g, k - 1, j, s)]

\* lines 96-100: exp(V) by eta, QFT, exp(p^2/2) by lam, X on qubit 0, QFT^-1
TrotterOps(nv) ==
    <<Op("expV", -1, -1, SymEta)>>
    \o PerRegister(nv, "QFT", -1, NoSym)
    \o PerRegister(nv, "expK", -1, SymLam)
    \o PerRegister(nv, "X", 0, NoSym)
    \o PerRegister(nv, "QFTinv", -1, NoSym)

\* lines 102-104: QFT, X on qubit 0, QFT^-1
CorrectionOps(nv) ==
    PerRegister(nv, "QFT", -1, NoSym)
    \o PerRegister(nv, "X", 0, NoSym)
    \o PerRegister(nv, "QFTinv", -1, NoSym)

\* circuit += ops: cirq appends to the object in place
IAdd(h, ref, ops) == [h EXCEPT ![ref] = @ \o ops]

\* circuit = cirq.Circuit(): a new, empty circuit object
NewCircuit(h) == [ref |-> Len(h) + 1, heap |-> Append(h, <<>>)]

\* lines 95-104: the loop body, run k times on the running circuit `ref`
RECURSIVE TrotterLoop(_, _, _, _)
TrotterLoop(k, nv, ref, st) ==
    IF k = 0 THEN st
    ELSE LET h1 == IAdd(st.heap, ref, TrotterOps(nv))
             l1 == Append(st.list, ref)
             h2 == IAdd(h1, ref, CorrectionOps(nv))
         IN  TrotterLoop(k - 1, nv, ref, [heap |-> h2, list |-> l1])

\* generate_circuits that records the running circuit once more on return
GenerateCircuitsExtra(h, rr, nv, p) ==
    LET c  == NewCircuit(h)
        h1 == IAdd(c.heap, c.ref, PrepOps(nv, p))
        st == TrotterLoop(rr, nv, c.ref, [heap |-> h1, list |-> <<c.ref>>])
    IN  [st EXCEPT !.list = Append(@, c.ref)]

\* generate_circuits(r, xs, eta, lam): the heap after the call and the
\* returned list of references
GenerateCircuits(h, rr, nv, p) ==
    LET c  == NewCircuit(h)
        h1 == IAdd(c.heap, c.ref, PrepOps(nv, p))
    IN  TrotterLoop(rr, nv, c.ref, [heap |-> h1, list |-> <<c.ref>>])

\* self.params = list(xs) + [eta] + [lam]
ParamList(nv, p) == [k \in 1..(nv * p) |-> SymXs(k - 1)] \o <<SymEta>> \o <<SymLam>>

(* --------------------------- random numbers --------------------------- *)
Sites == {"shared", "eta", "lam"}
RngInit == [ctr |-> [k \in (SeedArgs \ {None}) \X Sites |-> 0], entropy |-> 0]

\* tf.random.normal(shape=[1], mean=0, stddev=1, seed=seed) at call site
\* `site` (eta_mu = lam_mu = 0 and eta_sig = lam_sig = 1, lines 50-53, leave
\* the standard normal draw as it is): the draw is named by its generator
\* seed and its position in that generator's stream; equal names are equal
\* numbers, and unseeded draws never share a name
RandomNormal(rng, md, seed, site) ==
    IF seed = None
    THEN [val |-> [seed |-> None, pos |-> rng.entropy],
          rng |-> [rng EXCEPT !.entropy = @ + 1]]
    ELSE LET key == <<seed, IF md = "eager" THEN "shared" ELSE site>>
         IN  [val |-> [seed |-> seed, pos |-> rng.ctr[key]],
              rng |-> [rng EXCEPT !.ctr[key] = @ + 1]]

\* a float32 scalar: draw * num / den; NoDraw stands for the factor 1
NoDraw == [seed |-> None, pos |-> -1]
Lit(b) == [z |-> NoDraw, num |-> b, den |-> 1]
\* x *= self.t / self.r
Scale(d, tt, rr) == [z |-> d, num |-> tt, den |-> rr]

(* ------------------------- circuit execution -------------------------- *)
\* the value bound to symbol s: symbol_names and symbol_values are matched
\* by position
Resolve(names, values, s) ==
    LET at == CHOOSE q \in 1..Len(names) : names[q] = s IN values[at]

\* the computational-basis state the preparation flips produce: qubit
\* (i, j) is flipped by X ** (value of its symbol)
PreparedBits(content, names, values, n) ==
    [q \in 1..n |-> Resolve(names, values, content[q].sym).num]

Complement(bs) == [q \in 1..Len(bs) |-> 1 - bs[q]]

\* tfq.layers.Sample, repetitions=1: the bitstrings a single shot may give.
\* The simulator draws it from the output distribution with its own random
\* source; two outcomes of the support are kept.
SampleOutcomes(content, names, values, n) ==
    LET b == PreparedBits(content, names, values, n) IN {b, Complement(b)}

\* one row of a wavefunction tensor, of shape [dim].  circuit = 0: the row
\* is dim copies of the literal `lit`.  Otherwise the row is what
\* tfq.layers.State computes: entry b is |<b| circuit(values) |0>|^2
\* line 146: [0.0] * m
ZeroRow(m) == [dim |-> m, lit |-> 0, circuit |-> 0, values |-> <<>>]

\* lines 126-127: the wavefunction of one circuit, reshaped to [2^(nv*p)]
Wavefunction(ref, values, n) ==
    [dim |-> Pow2(n), lit |-> 0, circuit |-> ref, values |-> values]

(* ------------------------------ kernel -------------------------------- *)
\* bootstrap_results with one wavefunction row too few
BootstrapResultsShort(init_state, nv, p, rr) ==
    [target_log_prob |-> TargetLogProb(init_state),
     wfs |-> [k \in 1..rr |-> ZeroRow(Pow2(nv * p))],
     log_acceptance_correction |-> Lit(0)]

\* bootstrap_results(init_state), lines 144-149
BootstrapResults(init_state, nv, p, rr) ==
    [target_log_prob |-> TargetLogProb(init_state),
     wfs |-> [k \in 1..(rr + 1) |-> ZeroRow(Pow2(nv * p))],
     log_acceptance_correction |-> Lit(0)]

\* lines 115: reshape to [num_vars * precision], row-major
Flatten(m) == Concat(m)

\* the value vector with lam bound before eta
BindValuesLamFirst(state, p, eta, lam) ==
    LET bin_vals == Flatten(domain_bin_tf(state, p))
    IN  [k \in 1..Len(bin_vals) |-> Lit(bin_vals[k])] \o <<lam>> \o <<eta>>

\* lines 114-118: encode, flatten, cast, append eta and lam
BindValues(state, p, eta, lam) ==
    LET bin_vals == Flatten(domain_bin_tf(state, p))
    IN  [k \in 1..Len(bin_vals) |-> Lit(bin_vals[k])] \o <<eta>> \o <<lam>>

\* line 122: circuit_output[i*precision : i*precision + precision]
SplitBits(out, nv, p) == [i \in 1..nv |-> SubSeq(out, (i - 1) * p + 1, i * p)]

\* a result record that also overwrites the acceptance correction
ReplaceResultsAll(prev, tlp, wfs) ==
    [target_log_prob |-> tlp, wfs |-> wfs, log_acceptance_correction |-> Lit(tlp)]

\* lines 137-139: previous_kernel_results._replace(target_log_prob, wfs)
ReplaceResults(prev, tlp, wfs) ==
    [prev EXCEPT !.target_log_prob = tlp, !.wfs = wfs]

\* initial states offered to the kernel and the driver: an off-grid value
\* and the upper end of the domain, per variable
InitGrid(p) == {1, Pow2(p - 1) * Den}
InitStates(nv, p) ==
    {[i \in 1..nv |-> IF i % 2 = 1 THEN a ELSE b] : a, b \in InitGrid(p)}

\* the arguments of QDHMCKernel(target_log_prob, precision, t, r, num_vars)
KernelInit ==
    /\ phase = "new"
    /\ precision \in 1..MaxPrecision
    /\ num_vars \in 1..MaxVars
    /\ r \in 0..MaxR
    /\ t \in TimeArgs
    /\ mode \in Modes
    /\ heap = <<>> /\ all_circuits = <<>> /\ trotterized_circuit = 0
    /\ params = <<>> /\ kernelCtr = RngInit.ctr
    /\ entropy = 0 /\ boot = <<>> /\ pool = {} /\ calls = <<>> /\ last = <<>>
    /\ raised = FALSE
    /\ pc = "idle" /\ kernel_type = "classical" /\ num_samples = 0
    /\ num_burnin = 0 /\ elems = <<>> /\ idx = 0 /\ todo = 0 /\ steps = 0
    /\ chain_state = <<>> /\ accepted_now = FALSE /\ samples = <<>>
    /\ is_accepted = <<>> /\ sample_mean = <<>> /\ rate = <<>>
    /\ cstage = "idle" /\ cx = <<>> /\ cbits = <<>> /\ cdec = <<>>

\* QDHMCKernel.__init__, lines 33-53
Construct ==
    /\ phase = "new"
    /\ LET g == GenerateCircuits(heap, r, num_vars, precision)
       IN  /\ heap' = g.heap
           /\ all_circuits' = g.list
           /\ trotterized_circuit' = g.list[Len(g.list)]
    /\ params' = ParamList(num_vars, precision)
    /\ phase' = "constructed"
    /\ UNCHANGED <<precision, num_vars, r, t, mode, kernelCtr, entropy, boot,
                   pool, calls, last, raised>>
    /\ UNCHANGED <<hvars, cvars>>

\* QDHMCKernel.bootstrap_results(init_state)
Bootstrap ==
    /\ phase = "constructed"
    /\ \E init \in InitStates(num_vars, precision) :
         LET kr == BootstrapResults(init, num_vars, precision, r)
         IN  /\ boot' = <<[init |-> init, out |-> kr]>>
             /\ pool' = {[state |-> init, kr |-> kr]}
    /\ phase' = "ready"
    /\ UNCHANGED <<precision, num_vars, r, t, heap, all_circuits,
                   trotterized_circuit, params, mode, kernelCtr, entropy,
                   calls, last, raised>>
    /\ UNCHANGED <<hvars, cvars>>

\* QDHMCKernel.one_step(current_state, previous_kernel_results, seed)
OneStep ==
    /\ phase = "ready"
    /\ r >= 1
    /\ Len(calls) < MaxCalls
    /\ \E arg \in pool, seed \in SeedArgs :
         LET n    == num_vars * precision
             d1   == RandomNormal([ctr |-> kernelCtr, entropy |-> entropy],
                                  mode, seed, "eta")
             eta  == Scale(d1.val, t, r)
             d2   == RandomNormal(d1.rng, mode, seed, "lam")
             lam  == Scale(d2.val, t, r)
             values == BindValues(arg.state, precision, eta, lam)
         IN  \E circuit_output \in
                   SampleOutcomes(heap[trotterized_circuit], params, values, n) :
               LET bitstrings == SplitBits(circuit_output, num_vars, precision)
                   next_wfs == [k \in 1..Len(all_circuits) |->
                                   Wavefunction(all_circuits[k], values, n)]
                   next_state == domain_float_tf(bitstrings, precision)
                   tlp == TargetLogProb(next_state)
                   new_kernel_results == ReplaceResults(arg.kr, tlp, next_wfs)
               IN  /\ kernelCtr' = d2.rng.ctr
                   /\ entropy' = d2.rng.entropy
                   /\ pool' = pool \cup {[state |-> next_state,
                                          kr |-> new_kernel_results]}
                   /\ calls' = Append(calls,
                         [seed |-> seed, state |-> arg.state, prev |-> arg.kr,
                          next_state |-> next_state,
                          results |-> new_kernel_results])
                   /\ last' = <<[eta |-> eta, lam |-> lam, values |-> values,
                                 state |-> arg.state,
                                 sampled_with |-> values,
                                 wfs |-> next_wfs]>>
    /\ UNCHANGED <<phase, precision, num_vars, r, t, heap, all_circuits,
                   trotterized_circuit, params, mode, boot, raised>>
    /\ UNCHANGED <<hvars, cvars>>

\* one_step with r = 0: line 109 draws eta, line 110 divides by zero
OneStepDivZero ==
    /\ phase = "ready"
    /\ r = 0
    /\ ~raised
    /\ \E seed \in SeedArgs :
         LET d1 == RandomNormal([ctr |-> kernelCtr, entropy |-> entropy],
                                mode, seed, "eta")
         IN  /\ kernelCtr' = d1.rng.ctr
             /\ entropy' = d1.rng.entropy
    /\ raised' = TRUE
    /\ UNCHANGED <<phase, precision, num_vars, r, t, heap, all_circuits,
                   trotterized_circuit, params, mode, boot, pool, calls, last>>
    /\ UNCHANGED <<hvars, cvars>>

KernelNext == Construct \/ Bootstrap \/ OneStep \/ OneStepDivZero

(* ------------------------------ driver -------------------------------- *)
KernelTypes == {"classical", "quantum"}

\* sample_chain's scan schedule with the burn-in steps left out of the
\* first result
OneHotNoBurnin(n, b) == [i \in 1..n |-> 1]

\* tf.one_hot(indices=0, depth=num_results, on_value=1 + num_burnin_steps,
\*            off_value=1): kernel steps to run before the i-th result
OneHot(n, b) == [i \in 1..n |-> IF i = 1 THEN 1 + b ELSE 1]

RECURSIVE Sum(_)
Sum(s) == IF s = <<>> THEN 0 ELSE Head(s) + Sum(Tail(s))

\* tf.reduce_mean of a tensor with the given entries: sum / count, kept
\* as the pair; count 0 is the float 0/0 = NaN
ReduceMean(xs) == [num |-> Sum(xs), den |-> Len(xs)]
IsNaN(m) == m.den = 0

\* tf.cast(is_accepted, tf.float32)
CastFloat(bs) == [i \in 1..Len(bs) |-> IF bs[i] THEN 1 ELSE 0]

\* the states a kernel may propose from `state`
Proposals(kt, state, p) ==
    IF kt = "quantum"
    THEN LET bits == domain_bin_tf(state, p)
         IN  {domain_float_tf(bits, p),
              domain_float_tf([i \in 1..Len(bits) |-> Complement(bits[i])], p)}
    ELSE {state, [i \in 1..Len(state) |-> state[i] + 1]}

\* HMC(...) and the arguments of run_hmc(num_samples, num_burnin, init_state)
HmcInit ==
    /\ pc = "start"
    /\ kernel_type \in KernelTypes
    /\ num_samples \in 0..MaxSamples
    /\ num_burnin \in 0..MaxBurnin
    /\ precision \in 1..MaxPrecision
    /\ num_vars = 1
    /\ r = 1 /\ t = 0
    /\ phase = "new" /\ heap = <<>> /\ all_circuits = <<>>
    /\ trotterized_circuit = 0 /\ params = <<>> /\ mode = "graph"
    /\ kernelCtr = RngInit.ctr /\ entropy = 0 /\ boot = <<>> /\ pool = {}
    /\ calls = <<>> /\ last = <<>> /\ raised = FALSE
    /\ elems = <<>> /\ idx = 0 /\ todo = 0 /\ steps = 0
    /\ chain_state = <<>> /\ accepted_now = FALSE /\ samples = <<>>
    /\ is_accepted = <<>> /\ sample_mean = <<>> /\ rate = <<>>
    /\ cstage = "idle" /\ cx = <<>> /\ cbits = <<>> /\ cdec = <<>>

\* run_hmc lines 175-185: pick the initial state, enter sample_chain
RunHmc ==
    /\ pc = "start"
    /\ \E init \in InitStates(num_vars, precision) : chain_state' = init
    /\ elems' = OneHot(num_samples, num_burnin)
    /\ idx' = 1
    /\ todo' = IF num_samples > 0 THEN OneHot(num_samples, num_burnin)[1] ELSE 0
    /\ pc' = "scan"
    /\ UNCHANGED <<kernel_type, num_samples, num_burnin, steps, accepted_now,
                   samples, is_accepted, sample_mean, rate>>
    /\ UNCHANGED <<kvars, cvars>>

\* one kernel step of the scan: propose, then accept or reject
KernelStep ==
    /\ pc = "scan" /\ idx <= Len(elems) /\ todo > 0
    /\ \E prop \in Proposals(kernel_type, chain_state, precision), u \in BOOLEAN :
         LET ratio == TargetLogProb(prop) - TargetLogProb(chain_state)
             acc   == IF kernel_type = "quantum" THEN (ratio >= 0 \/ u) ELSE u
         IN  /\ chain_state' = IF acc THEN prop ELSE chain_state
             /\ accepted_now' = acc
    /\ todo' = todo - 1
    /\ steps' = steps + 1
    /\ UNCHANGED <<pc, kernel_type, num_samples, num_burnin, elems, idx,
                   samples, is_accepted, sample_mean, rate>>
    /\ UNCHANGED <<kvars, cvars>>

\* trace_fn after the steps of one scan element: record state and flag
Trace ==
    /\ pc = "scan" /\ idx <= Len(elems) /\ todo = 0
    /\ samples' = Append(samples, chain_state)
    /\ is_accepted' = Append(is_accepted, accepted_now)
    /\ idx' = idx + 1
    /\ todo' = IF idx + 1 <= Len(elems) THEN elems[idx + 1] ELSE 0
    /\ UNCHANGED <<pc, kernel_type, num_samples, num_burnin, elems, steps,
                   chain_state, accepted_now, sample_mean, rate>>
    /\ UNCHANGED <<kvars, cvars>>

\* run_chain lines 187-190: the statistics of the returned samples
Finish ==
    /\ pc = "scan" /\ idx > Len(elems)
    /\ sample_mean' = <<ReduceMean(Concat(samples))>>
    /\ rate' = <<ReduceMean(CastFloat(is_accepted))>>
    /\ pc' = "done"
    /\ UNCHANGED <<kernel_type, num_samples, num_burnin, elems, idx, todo,
                   steps, chain_state, accepted_now, samples, is_accepted>>
    /\ UNCHANGED <<kvars, cvars>>

HmcNext == RunHmc \/ KernelStep \/ Trace \/ Finish

(* -------------------------- encoding round trip ----------------------- *)
\* every real of the grid in [-2^(p-1), 2^(p-1)], both ends included
Domain(p) == (0 - Pow2(p - 1) * Den)..(Pow2(p - 1) * Den)

CodecInit ==
    /\ cstage = "state"
    /\ precision \in 1..MaxPrecision
    /\ num_vars \in 1..MaxVars
    /\ cx \in [1..num_vars -> Domain(precision)]
    /\ cbits = <<>> /\ cdec = <<>>
    /\ r = 1 /\ t = 0
    /\ phase = "new" /\ heap = <<>> /\ all_circuits = <<>>
    /\ trotterized_circuit = 0 /\ params = <<>> /\ mode = "graph"
    /\ kernelCtr = RngInit.ctr /\ entropy = 0 /\ boot = <<>> /\ pool = {}
    /\ calls = <<>> /\ last = <<>> /\ raised = FALSE
    /\ pc = "idle" /\ kernel_type = "classical" /\ num_samples = 0
    /\ num_burnin = 0 /\ elems = <<>> /\ idx = 0 /\ todo = 0 /\ steps = 0
    /\ chain_state = <<>> /\ accepted_now = FALSE /\ samples = <<>>
    /\ is_accepted = <<>> /\ sample_mean = <<>> /\ rate = <<>>

\* one_step line 114
Encode ==
    /\ cstage = "state"
    /\ cbits' = domain_bin_tf(cx, precision)
    /\ cstage' = "bits"
    /\ UNCHANGED <<cx, cdec>>
    /\ UNCHANGED <<kvars, hvars>>

\* one_step line 131
Decode ==
    /\ cstage = "bits"
    /\ cdec' = domain_float_tf(cbits, precision)
    /\ cstage' = "decoded"
    /\ UNCHANGED <<cx, cbits>>
    /\ UNCHANGED <<kvars, hvars>>

CodecNext == Encode \/ Decode

(* --------------------------- specifications --------------------------- *)
Spec == KernelInit /\ [][KernelNext]_vars

SpecChain == HmcInit /\ [][HmcNext]_vars

SpecCodec == CodecInit /\ [][CodecNext]_vars

(* ------------------------------- claims ------------------------------- *)
\* what snapshot k holds when it is recorded: the preparation, then k
\* Trotter steps with a correction pass between consecutive steps
RECURSIVE ExpectedSnapshot(_, _, _)
ExpectedSnapshot(k, nv, p) ==
    IF k = 0 THEN PrepOps(nv, p)
    ELSE ExpectedSnapshot(k - 1, nv, p)
         \o (IF k > 1 THEN CorrectionOps(nv) ELSE <<>>)
         \o TrotterOps(nv)

\* C1: in the returned list, snapshot k holds exactly the circuit as it
\* stood when it was recorded (preparation, k Trotter steps, k-1 correction
\* passes), so the snapshots are pairwise different strict prefixes.
C1_SnapshotsFrozen ==
    phase # "new" =>
        /\ \A k \in 0..r :
             heap[all_circuits[k + 1]] = ExpectedSnapshot(k, num_vars, precision)
        /\ \A k \in 1..r :
             Len(heap[all_circuits[k]]) < Len(heap[all_circuits[k + 1]])

\* C2: generate_circuits(r) returns exactly r+1 snapshots and the sampling
\* circuit is the last element of the list.
C2_SnapshotCount ==
    phase # "new" =>
        /\ Len(all_circuits) = r + 1
        /\ trotterized_circuit = all_circuits[r + 1]

C2_Witness == phase = "constructed" /\ r = MaxR /\ Len(all_circuits) = MaxR + 1

\* C4: bootstrap_results returns r+1 rows of 2^(num_vars*precision) zeros,
\* a zero acceptance correction and the target log-probability of init_state.
C4_BootstrapShape ==
    boot # <<>> =>
        LET kr == boot[1].out
        IN  /\ Len(kr.wfs) = r + 1
            /\ \A k \in 1..Len(kr.wfs) :
                 /\ kr.wfs[k].dim = Pow2(num_vars * precision)
                 /\ kr.wfs[k].circuit = 0 /\ kr.wfs[k].lit = 0
            /\ kr.log_acceptance_correction.z = NoDraw
            /\ kr.log_acceptance_correction.num = 0
            /\ kr.target_log_prob = 0 - SumSq(boot[1].init)

C4_Witness ==
    /\ boot # <<>> /\ r = MaxR /\ num_vars = MaxVars /\ precision = MaxPrecision
    /\ Len(boot[1].out.wfs) = MaxR + 1

\* C5: every record reachable from bootstrap_results through one_step has a
\* zero acceptance correction; one_step copies it from the previous record,
\* which itself stays as it was.
C5_CorrectionZero ==
    /\ \A x \in pool :
         /\ x.kr.log_acceptance_correction.z = NoDraw
         /\ x.kr.log_acceptance_correction.num = 0
    /\ \A i \in 1..Len(calls) :
         /\ calls[i].results.log_acceptance_correction
              = calls[i].prev.log_acceptance_correction
         /\ \E x \in pool : x.kr = calls[i].prev /\ x.state = calls[i].state

C5_Witness ==
    /\ Len(calls) = 2
    /\ calls[2].prev = calls[1].results
    /\ calls[1].results.target_log_prob # calls[1].prev.target_log_prob

\* C6: two one_step calls given the same seed, current state and previous
\* record return the same next state and the same record.
C6_Deterministic ==
    \A i, j \in 1..Len(calls) :
        (/\ calls[i].seed # None
         /\ calls[i].seed = calls[j].seed
         /\ calls[i].state = calls[j].state
         /\ calls[i].prev = calls[j].prev)
        => (/\ calls[i].next_state = calls[j].next_state
            /\ calls[i].results = calls[j].results)

\* C7: in each one_step call the lam draw is independent of the eta draw:
\* it is another draw, not the same number again.
C7_IndependentDraws ==
    last # <<>> => last[1].lam.z # last[1].eta.z

\* the symbol of the preparation flip on qubit (i, j) of circuit `content`
PrepSymbol(content, i, j) ==
    LET at == CHOOSE q \in 1..Len(content) :
                  /\ content[q].gate = "X" /\ content[q].reg = i
                  /\ content[q].col = j /\ content[q].sym.name = "xs"
    IN  content[at].sym

\* C10: the bound value vector has num_vars*precision + 2 entries in the
\* order of params: entry i*precision+j is bit j of variable i and belongs
\* to the symbol of the flip on qubit (i, j), then eta, then lam; the same
\* vector serves the sample and every snapshot's state extraction.
C10_ValueVector ==
    last # <<>> =>
        LET v == last[1].values
            n == num_vars * precision
            bits == domain_bin_tf(last[1].state, precision)
        IN  /\ Len(v) = n + 2
            /\ Len(params) = n + 2
            /\ \A i \in 0..(num_vars - 1), j \in 0..(precision - 1) :
                 /\ v[i * precision + j + 1].z = NoDraw
                 /\ v[i * precision + j + 1].num = bits[i + 1][j + 1]
                 /\ params[i * precision + j + 1]
                      = PrepSymbol(heap[trotterized_circuit], i, j)
            /\ params[n + 1].name = "eta" /\ v[n + 1] = last[1].eta
            /\ params[n + 2].name = "lam" /\ v[n + 2] = last[1].lam
            /\ last[1].sampled_with = v
            /\ Len(last[1].wfs) = Len(all_circuits)
            /\ \A k \in 1..Len(last[1].wfs) :
                 /\ last[1].wfs[k].circuit = all_circuits[k]
                 /\ last[1].wfs[k].values = v

C10_Witness ==
    /\ last # <<>> /\ num_vars = 2 /\ precision = 2
    /\ last[1].eta # last[1].lam
    /\ \E q \in 1..4 : last[1].values[q].num = 1
    /\ \E q \in 1..4 : last[1].values[q].num = 0

\* C3 as stated: B+N kernel steps in total and exactly N returned states,
\* for every N >= 0 and B >= 0.
C3_ChainLengthAll ==
    pc = "done" =>
        /\ steps = num_burnin + num_samples
        /\ Len(samples) = num_samples

\* C3, amended: exactly N states are returned for every N and B; the chain
\* runs B+N kernel steps when N >= 1 and no step at all when N = 0.
C3_ChainLength ==
    pc = "done" =>
        /\ Len(samples) = num_samples
        /\ Len(is_accepted) = num_samples
        /\ steps = (IF num_samples >= 1 THEN num_burnin + num_samples ELSE 0)

C3_Witness ==
    /\ pc = "done" /\ num_samples = 2 /\ num_burnin = 2 /\ steps = 4
    /\ kernel_type = "quantum" /\ Len(samples) = 2

\* C9: the acceptance rate a finished run returns is a number in [0, 1].
C9_RateInUnitInterval ==
    pc = "done" =>
        /\ ~IsNaN(rate[1])
        /\ 0 <= rate[1].num /\ rate[1].num <= rate[1].den

AbsDiff(a, b) == IF a >= b THEN a - b ELSE b - a

\* C8 as stated: decode(encode(x)) is within 2^(1-p) of x on the whole
\* domain [-2^(p-1), 2^(p-1)].
C8_RoundTripTight ==
    cstage = "decoded" =>
        \A i \in 1..Len(cx) :
            AbsDiff(cdec[i], cx[i]) * Pow2(precision) <= 2 * Den

\* C8, amended: decode(encode(x)) is within one discretization step
\* (2^-p of the domain's width 2^p, that is 1) of x on the whole domain.
C8_RoundTripStep ==
    cstage = "decoded" =>
        \A i \in 1..Len(cx) : AbsDiff(cdec[i], cx[i]) <= Den

C8_Witness ==
    /\ cstage = "decoded" /\ precision = 2
    /\ cx[1] = Pow2(precision - 1) * Den
    /\ AbsDiff(cdec[1], cx[1]) = Den

====
